---- MODULE Spec2Model ----
(***************************************************************************)
(* The Safe (multisig) action provider of hello-world-computer:            *)
(* src/lib/web3/agentkit/action-providers/safe/index.ts.                   *)
(*                                                                         *)
(* Four async handlers (createSafe, createSafeTransaction,                 *)
(* signSafeTransaction, executeSafeTransaction) run as invocations.  Each  *)
(* await of a handler that touches shared state (the database, the chain,  *)
(* the wallet) is one step, so invocations interleave exactly where the    *)
(* JavaScript event loop lets them.  The chain, the Safe protocol kit and  *)
(* the wallet service are the environment: every call into them can also   *)
(* fail.                                                                   *)
(***************************************************************************)
EXTENDS Integers, Sequences, FiniteSets, TLC

(* ------------------------------ bounds --------------------------------- *)

\* Handler invocations started in one run.
MaxCalls == 3
\* Transactions the wallet provider broadcasts in one run.
MaxTx == 2
\* Handler invocations that can be in flight at once.
Procs == {"p1", "p2"}
SlotOrder(p) == IF p = "p1" THEN 1 ELSE 2

(* --------------------------- input domains ----------------------------- *)

\* walletProvider.getAddress() of the wallets that sign: checksummed
\* (mixed-case) addresses.  0xBb owns the safes below, 0xAa does not.
Wallets == {"0xAa", "0xBb"}
\* The wallet that deploys safes and submits executions: who sends those
\* transactions changes nothing of what the handlers or the contracts do.
Senders == {"0xAa"}

\* String.prototype.toLowerCase on an address.
ToLower(a) ==
    CASE a = "0xAa" -> "0xaa"
      [] a = "0xBb" -> "0xbb"
      [] a = "0xCc" -> "0xcc"
      [] OTHER -> a

\* Numeric order of addresses (the kit sorts signatures by signer address).
Rank(a) ==
    CASE ToLower(a) = "0xaa" -> 1
      [] ToLower(a) = "0xbb" -> 2
      [] OTHER -> 3

\* args.owners of createSafe.
OwnerLists == {<<"0xBb", "0xCc">>}
\* args.threshold of createSafe (z.number(): zero passes the schema).
Thresholds == {0, 1, 2}

\* One {to, value, data} triple of args.transactions.
T1 == [to |-> "0xCc", value |-> "1", data |-> "0x"]
\* args.transactions of createSafeTransaction: no call, or one call.
Batches == {<< >>, <<T1>>}

Range(s) == {s[i] : i \in DOMAIN s}

(* ------------------------- the Safe protocol kit ------------------------ *)

\* validateSafeAccountConfig, run when the kit predicts an address.
ValidConfig(owners, threshold) ==
    /\ Len(owners) >= 1
    /\ threshold >= 1
    /\ threshold <= Len(owners)

\* protocolKit.getAddress() of a predicted safe: the CREATE2 address of the
\* proxy, a collision-free digest of the initializer (owners, threshold).
PredictAddress(owners, threshold) == <<"safe", owners, threshold>>

\* Every address a safeAddress argument is drawn from: the addresses a
\* safe can be deployed at.
SafeAddresses ==
    {PredictAddress(c[1], c[2]) :
        c \in {c \in OwnerLists \X Thresholds : ValidConfig(c[1], c[2])}}

\* protocolKit.createTransaction({transactions}) for a batch of one call:
\* the call itself, with the safe's current nonce.
CreateTransactionData(transactions, safeNonce) ==
    [to |-> transactions[1].to,
     value |-> transactions[1].value,
     data |-> transactions[1].data,
     nonce |-> safeNonce]

\* protocolKit.getTransactionHash(safeTx): the EIP-712 digest of the
\* transaction data under the safe's address, collision-free.
GetTransactionHash(safeAddress, data) == <<safeAddress, data>>

\* A transactionHash argument under which nothing is ever persisted.
UnknownHash ==
    GetTransactionHash(PredictAddress(<< >>, 0),
                       [to |-> "0x00", value |-> "0", data |-> "0x",
                        nonce |-> 0])

\* new EthSafeTransaction(data): no signatures yet.
EthSafeTransaction(data) == [data |-> data, signatures |-> << >>]

\* new EthSafeSignature(signer, data).
EthSafeSignature(signer, data) == [signer |-> signer, data |-> data]

\* Faulty variant: the signature map is keyed by the address as given.
AddSignatureCaseSensitive(safeTx, signature) ==
    LET key == signature.signer
        old == safeTx.signatures
    IN  [safeTx EXCEPT !.signatures =
            [k \in DOMAIN old \cup {key} |->
                IF k = key THEN signature ELSE old[k]]]

\* EthSafeTransaction.addSignature: signatures.set(signer.toLowerCase(), sig).
AddSignature(safeTx, signature) ==
    LET key == ToLower(signature.signer)
        old == safeTx.signatures
    IN  [safeTx EXCEPT !.signatures =
            [k \in DOMAIN old \cup {key} |->
                IF k = key THEN signature ELSE old[k]]]

\* safeTx.signatures.size
Size(signatures) == Cardinality(DOMAIN signatures)

\* The keys of the signature map in ascending address order are what
\* encodedSignatures() sends; the contract reads the first `threshold`.
FirstSigners(signatures, n) ==
    {k \in DOMAIN signatures :
        Cardinality({j \in DOMAIN signatures : Rank(j) < Rank(k)}) < n}

(* ------------------------------ the database --------------------------- *)

\* getSafeTransactionByHash({transactionHash}): the rows under the hash,
\* none or one (transactionHash is unique).
GetSafeTransactionByHash(table, transactionHash) ==
    {r \in table : r.transactionHash = transactionHash}

\* saveSafeTransaction({transactionHash, safeAddress, transaction}): insert,
\* or on a row with the same hash replace its payload and signature count.
\* The signature Map is stored as an object keyed by signer.  Every caller
\* passes its own args.safeAddress; what a save on an existing row does with
\* it is not visible from the callers, and the row's address is kept here.
SaveSafeTransaction(table, transactionHash, safeAddress, transaction) ==
    LET old == GetSafeTransactionByHash(table, transactionHash)
        row == [transactionHash |-> transactionHash,
                safeAddress |-> IF old = {} THEN safeAddress
                                ELSE (CHOOSE r \in old : TRUE).safeAddress,
                transaction |->
                    [data |-> transaction.data,
                     signatures |->
                        [k \in DOMAIN transaction.signatures |->
                            [signer |-> transaction.signatures[k].signer,
                             data |-> transaction.signatures[k].data]]],
                signatureCount |-> Size(transaction.signatures)]
    IN  (table \ old) \cup {row}

\* Signature count stored under a hash, -1 when there is no row.
StoredCount(table, transactionHash) ==
    LET rows == GetSafeTransactionByHash(table, transactionHash)
    IN  IF rows = {} THEN -1 ELSE (CHOOSE r \in rows : TRUE).signatureCount

VARIABLES
    safes,      \* chain: the deployed safes, [address, owners, threshold]
    nonce,      \* chain: nonce of the safe at each address
    txs,        \* chain: the broadcast transactions, in order of broadcast
    db,         \* the SafeTransaction table
    pc,         \* per invocation: the await it is suspended at
    call,       \* per invocation: the action, its wallet provider, its args
    local,      \* per invocation: the handler's local variables
    result,     \* per invocation: the value the handler returned
    pre,        \* per invocation: signature count stored under its hash when
                \* the call learnt the hash (-1: no record); history only
    calls       \* invocations started so far

vars == <<safes, nonce, txs, db, pc, call, local, result, pre, calls>>
chain == <<safes, nonce, txs>>

NoCall == [op |-> "none"]
NoLocal == [unset |-> TRUE]
NoResult == [unset |-> TRUE]

Deployed(address) == \E s \in safes : s.address = address
SafeAt(address) == CHOOSE s \in safes : s.address = address

\* The chain the handlers are pointed at already holds a 1-of-2 safe.
InitialSafe ==
    [address |-> PredictAddress(<<"0xBb", "0xCc">>, 1),
     owners |-> <<"0xBb", "0xCc">>,
     threshold |-> 1]

Init ==
    /\ safes = {InitialSafe}
    /\ nonce = [a \in SafeAddresses |-> 0]
    /\ txs = << >>
    /\ db = {}
    /\ pc = [p \in Procs |-> "idle"]
    /\ call = [p \in Procs |-> NoCall]
    /\ local = [p \in Procs |-> NoLocal]
    /\ result = [p \in Procs |-> NoResult]
    /\ pre = [p \in Procs |-> -1]
    /\ calls = 0

\* An Error object.
Err(message) == [message |-> message]

\* The handler returns `value`: its frame (the locals) is gone.
ReturnValue(p, value) ==
    /\ pc' = [pc EXCEPT ![p] = "done"]
    /\ result' = [result EXCEPT ![p] = value]
    /\ local' = [local EXCEPT ![p] = NoLocal]

\* catch (error) { return { error } }             (createSafe)
CatchError(p, error) == ReturnValue(p, [error |-> error])

\* Faulty variant: the catch block lets the error go on (the promise rejects).
CatchMessageRethrow(p, error) ==
    /\ pc' = [pc EXCEPT ![p] = "rejected"]
    /\ local' = [local EXCEPT ![p] = NoLocal]
    /\ UNCHANGED result

\* catch (error) { return { error: error.message } }   (the other actions)
CatchMessage(p, error) == ReturnValue(p, [error |-> error.message])

\* The handler goes on to its next await.
Goto(p, label) ==
    /\ pc' = [pc EXCEPT ![p] = label]
    /\ UNCHANGED <<local, result>>

\* The same, having assigned the locals `fields`.
Continue(p, label, fields) ==
    /\ pc' = [pc EXCEPT ![p] = label]
    /\ local' = [local EXCEPT ![p] = fields @@ local[p]]
    /\ UNCHANGED result

\* Invocation slots are interchangeable: a new call takes the first free one.
FirstFree(p) ==
    /\ pc[p] = "idle"
    /\ \A q \in Procs : pc[q] = "idle" => SlotOrder(p) <= SlotOrder(q)

(* ------------------------------ createSafe ----------------------------- *)

CallCreateSafe(p) ==
    /\ FirstFree(p)
    /\ calls < MaxCalls
    /\ calls' = calls + 1
    /\ \E w \in Senders, o \in OwnerLists, t \in Thresholds :
          call' = [call EXCEPT ![p] =
                      [op |-> "createSafe", walletProvider |-> w,
                       args |-> [owners |-> o, threshold |-> t]]]
    /\ Goto(p, "cs_prepare")
    /\ UNCHANGED <<chain, db, pre>>

\* Faulty variant: the account config is built with every owner required
\* (threshold: owners.length) instead of args.threshold.
CreateSafePrepareAllOwners(p) ==
    /\ pc[p] = "cs_prepare"
    /\ LET a == call[p].args
           predictedSafeAddress == PredictAddress(a.owners, Len(a.owners)) IN
       \/ /\ ValidConfig(a.owners, Len(a.owners))
          /\ ~Deployed(predictedSafeAddress)
          /\ Continue(p, "cs_send",
                      [predictedSafeAddress |-> predictedSafeAddress,
                       tx |-> [kind |-> "deploy", owners |-> a.owners,
                               threshold |-> Len(a.owners)]])
       \/ /\ Deployed(predictedSafeAddress)
          /\ CatchError(p, Err("execution reverted"))
       \/ /\ CatchError(p, Err("Failed to prepare transaction request"))
    /\ UNCHANGED <<chain, db, call, pre, calls>>

\* Safe.init({predictedSafe}), protocolKit.getAddress(),
\* createSafeDeploymentTransaction() and client.prepareTransactionRequest():
\* the kit rejects an invalid configuration, and the gas estimate of the
\* request reverts when the proxy already exists.  Only the estimate reads
\* state another invocation can change, so the awaits are one step.
CreateSafePrepare(p) ==
    /\ pc[p] = "cs_prepare"
    /\ LET a == call[p].args
           predictedSafeAddress == PredictAddress(a.owners, a.threshold) IN
       \/ /\ ValidConfig(a.owners, a.threshold)
          /\ ~Deployed(predictedSafeAddress)
          /\ Continue(p, "cs_send",
                      [predictedSafeAddress |-> predictedSafeAddress,
                       tx |-> [kind |-> "deploy", owners |-> a.owners,
                               threshold |-> a.threshold]])
       \/ /\ ~ValidConfig(a.owners, a.threshold)
          /\ CatchError(p, Err("Invalid safe account config"))
       \/ /\ ValidConfig(a.owners, a.threshold)
          /\ Deployed(predictedSafeAddress)
          /\ CatchError(p, Err("execution reverted"))
       \/ /\ CatchError(p, Err("Failed to prepare transaction request"))
    /\ UNCHANGED <<chain, db, call, pre, calls>>

\* walletProvider.sendTransaction(tx): the transaction is broadcast.
Broadcast(tx) == txs' = Append(txs, tx @@ [status |-> "pending"])

CreateSafeSend(p) ==
    /\ pc[p] = "cs_send"
    /\ \/ /\ Len(txs) < MaxTx
          /\ Broadcast(local[p].tx)
          /\ Continue(p, "cs_wait",
                      [transactionHash |-> Len(txs) + 1])
       \/ /\ CatchError(p, Err("Account not found"))
          /\ UNCHANGED txs
    /\ UNCHANGED <<safes, nonce, db, call, pre, calls>>

\* Faulty variant: when the wait fails the handler compensates, replacing the
\* deployment it sent by a cancellation before it returns the error.
CreateSafeWaitCancels(p) ==
    /\ pc[p] = "cs_wait"
    /\ LET a == call[p].args
           sent == local[p].transactionHash IN
       \/ /\ txs[sent].status # "pending"
          /\ IF Deployed(local[p].predictedSafeAddress)
             THEN ReturnValue(p,
                     [safeAddress |-> local[p].predictedSafeAddress,
                      transactionHash |-> sent,
                      threshold |-> a.threshold,
                      owners |-> a.owners])
             ELSE CatchError(p, Err("SafeProxy contract is not deployed"))
          /\ UNCHANGED txs
       \/ /\ CatchError(p, Err("Timed out while waiting for transaction"))
          /\ txs' = [txs EXCEPT ![sent].status =
                        IF @ = "pending" THEN "cancelled" ELSE @]
    /\ UNCHANGED <<safes, nonce, db, call, pre, calls>>

\* waitForTransactionReceipt(client, {hash}) resolves with the receipt once
\* the transaction is mined, whatever the receipt's status, and can reject;
\* then protocolKit.connect({safeAddress}), which needs the safe deployed,
\* getAddress() and the return.  A deployed safe stays deployed, so the
\* awaits after the receipt are one step with it.
CreateSafeWait(p) ==
    /\ pc[p] = "cs_wait"
    /\ LET a == call[p].args IN
       \/ /\ txs[local[p].transactionHash].status # "pending"
          /\ IF Deployed(local[p].predictedSafeAddress)
             THEN ReturnValue(p,
                     [safeAddress |-> local[p].predictedSafeAddress,
                      transactionHash |-> local[p].transactionHash,
                      threshold |-> a.threshold,
                      owners |-> a.owners])
             ELSE CatchError(p, Err("SafeProxy contract is not deployed"))
       \/ CatchError(p, Err("Timed out while waiting for transaction"))
    /\ UNCHANGED <<chain, db, call, pre, calls>>

(* ------------------------ signTransaction (helper) --------------------- *)

\* The hash an invocation works on: computed by createSafeTransaction, an
\* argument of the other two.
HashOf(p) ==
    IF call[p].op = "createSafeTransaction"
    THEN local[p].transactionHash
    ELSE call[p].args.transactionHash

\* Faulty variant: the loop putting the signatures back ends after its first entry.
ReattachFirstOnly(storedTx) ==
    LET stored == storedTx.transaction.signatures
        first == FirstSigners(stored, 1)
    IN  [data |-> storedTx.transaction.data,
         signatures |->
            [k \in first |-> EthSafeSignature(k, stored[k].data)]]

\* Faulty variant: the transaction is rebuilt from the stored object itself,
\* not from its data, so the payload's fields come out as the defaults.
ReattachPayloadLost(storedTx) ==
    LET stored == storedTx.transaction.signatures
    IN  [data |-> [to |-> "0x00", value |-> "0", data |-> "0x", nonce |-> 0],
         signatures |->
            [k \in {ToLower(signer) : signer \in DOMAIN stored} |->
                LET signer == CHOOSE signer \in DOMAIN stored :
                                  ToLower(signer) = k
                IN  EthSafeSignature(signer, stored[signer].data)]]

\* getTransactionByHash: the stored payload with its signatures put back.
Reattach(storedTx) ==
    LET stored == storedTx.transaction.signatures
        entries == {<<signer, stored[signer]>> : signer \in DOMAIN stored}
    IN  [data |-> storedTx.transaction.data,
         signatures |->
            [k \in {ToLower(e[1]) : e \in entries} |->
                LET e == CHOOSE e \in entries : ToLower(e[1]) = k
                IN  EthSafeSignature(e[1], e[2].data)]]

\* walletProvider.signMessage({raw: transactionHash}) and adjustVInSignature:
\* an eth_sign signature of the hash by the wallet's account.
SignMessage(wallet, transactionHash) == <<"eth_sign", wallet, transactionHash>>

\* Faulty variant: getTransactionByHash without its `if (!storedTx)` check: the
\* read of storedTx.transaction throws a TypeError instead.
SignTransactionUnchecked(p) ==
    /\ pc[p] = "st_sign"
    /\ LET rows == GetSafeTransactionByHash(db, HashOf(p))
           wallet == call[p].walletProvider
           signature == EthSafeSignature(wallet,
                                         SignMessage(wallet, HashOf(p))) IN
       \/ /\ rows # {}
          /\ Continue(p, IF call[p].op = "createSafeTransaction"
                         THEN "ct_store" ELSE "ss_save",
                      [signedTx |->
                          AddSignature(Reattach(CHOOSE r \in rows : TRUE),
                                       signature)])
       \/ /\ rows = {}
          /\ CatchMessage(p, Err("Cannot read properties of undefined"))
       \/ /\ CatchMessage(p, Err("Failed to get safe transaction"))
    /\ UNCHANGED <<chain, db, call, pre, calls>>

\* Faulty variant: signTransaction refuses a signer whose signature is already there.
SignTransactionOnce(p) ==
    /\ pc[p] = "st_sign"
    /\ LET rows == GetSafeTransactionByHash(db, HashOf(p))
           wallet == call[p].walletProvider
           signature == EthSafeSignature(wallet,
                                         SignMessage(wallet, HashOf(p))) IN
       \/ /\ rows # {}
          /\ LET safeTx == Reattach(CHOOSE r \in rows : TRUE) IN
             IF ToLower(wallet) \in DOMAIN safeTx.signatures
             THEN CatchMessage(p, Err("Already signed"))
             ELSE Continue(p, IF call[p].op = "createSafeTransaction"
                              THEN "ct_store" ELSE "ss_save",
                           [signedTx |-> AddSignature(safeTx, signature)])
       \/ /\ rows = {}
          /\ CatchMessage(p, Err("Transaction not found"))
       \/ /\ CatchMessage(p, Err("Failed to get safe transaction"))
    /\ UNCHANGED <<chain, db, call, pre, calls>>

\* signTransaction: getTransactionByHash, then signMessage,
\* adjustVInSignature and addSignature.  Signing reads nothing another
\* invocation can change, so it is one step with the database read.  The
\* signed transaction is what the caller's await receives.
SignTransaction(p) ==
    /\ pc[p] = "st_sign"
    /\ LET rows == GetSafeTransactionByHash(db, HashOf(p))
           wallet == call[p].walletProvider
           signature == EthSafeSignature(wallet,
                                         SignMessage(wallet, HashOf(p))) IN
       \/ /\ rows # {}
          /\ Continue(p, IF call[p].op = "createSafeTransaction"
                         THEN "ct_store" ELSE "ss_save",
                      [signedTx |->
                          AddSignature(Reattach(CHOOSE r \in rows : TRUE),
                                       signature)])
       \/ /\ rows = {}
          /\ CatchMessage(p, Err("Transaction not found"))
       \/ /\ CatchMessage(p, Err("Failed to get safe transaction"))
       \/ /\ rows # {}
          /\ CatchMessage(p, Err("Account not found"))
    /\ UNCHANGED <<chain, db, call, pre, calls>>

(* ------------------------- createSafeTransaction ----------------------- *)

CallCreateSafeTransaction(p) ==
    /\ FirstFree(p)
    /\ calls < MaxCalls
    /\ calls' = calls + 1
    /\ \E w \in Wallets, a \in SafeAddresses, t \in Batches :
          call' = [call EXCEPT ![p] =
                      [op |-> "createSafeTransaction", walletProvider |-> w,
                       args |-> [safeAddress |-> a, transactions |-> t]]]
    /\ Goto(p, "ct_init")
    /\ UNCHANGED <<chain, db, pre>>

\* Safe.init({safeAddress}), createTransaction and getTransactionHash.
CreateSafeTransactionInit(p) ==
    /\ pc[p] = "ct_init"
    /\ LET a == call[p].args
           data == CreateTransactionData(a.transactions, nonce[a.safeAddress])
           transactionHash == GetTransactionHash(a.safeAddress, data) IN
       \/ /\ Deployed(a.safeAddress)
          /\ Len(a.transactions) > 0
          /\ Continue(p, "ct_save",
                      [safeTx |-> EthSafeTransaction(data),
                       transactionHash |-> transactionHash])
          /\ pre' = [pre EXCEPT ![p] = StoredCount(db, transactionHash)]
       \/ /\ ~Deployed(a.safeAddress)
          /\ CatchMessage(p, Err("SafeProxy contract is not deployed"))
          /\ UNCHANGED pre
       \/ /\ Deployed(a.safeAddress)
          /\ Len(a.transactions) = 0
          /\ CatchMessage(p, Err("Invalid empty array of transactions"))
          /\ UNCHANGED pre
       \/ /\ CatchMessage(p, Err("Safe.init failed"))
          /\ UNCHANGED pre
    /\ UNCHANGED <<chain, db, call, calls>>

\* Faulty variant: the first saveSafeTransaction is left out.
CreateSafeTransactionSaveSkipped(p) ==
    /\ pc[p] = "ct_save"
    /\ Goto(p, "st_sign")
    /\ UNCHANGED <<chain, db, call, pre, calls>>

\* "Save the transaction to the database": the first saveSafeTransaction.
CreateSafeTransactionSave(p) ==
    /\ pc[p] = "ct_save"
    /\ \/ /\ db' = SaveSafeTransaction(db, local[p].transactionHash,
                                       call[p].args.safeAddress,
                                       local[p].safeTx)
          /\ Goto(p, "st_sign")
       \/ /\ CatchMessage(p, Err("Failed to save safe transaction"))
          /\ UNCHANGED db
    /\ UNCHANGED <<chain, call, pre, calls>>

\* Faulty variant: the second save stores safeTx, not signedTx.
CreateSafeTransactionStoreUnsigned(p) ==
    /\ pc[p] = "ct_store"
    /\ \/ /\ db' = SaveSafeTransaction(db, local[p].transactionHash,
                                       call[p].args.safeAddress,
                                       local[p].safeTx)
          /\ ReturnValue(p,
                [transactionHash |-> local[p].transactionHash,
                 signatureCount |-> Size(local[p].signedTx.signatures)])
       \/ /\ CatchMessage(p, Err("Failed to save safe transaction"))
          /\ UNCHANGED db
    /\ UNCHANGED <<chain, call, pre, calls>>

\* "Store the signed transaction": the second saveSafeTransaction, and the
\* return of the hash and of signedTx.signatures.size.
CreateSafeTransactionStore(p) ==
    /\ pc[p] = "ct_store"
    /\ \/ /\ db' = SaveSafeTransaction(db, local[p].transactionHash,
                                       call[p].args.safeAddress,
                                       local[p].signedTx)
          /\ ReturnValue(p,
                [transactionHash |-> local[p].transactionHash,
                 signatureCount |-> Size(local[p].signedTx.signatures)])
       \/ /\ CatchMessage(p, Err("Failed to save safe transaction"))
          /\ UNCHANGED db
    /\ UNCHANGED <<chain, call, pre, calls>>

(* -------------------------- signSafeTransaction ------------------------ *)

\* The hashes a caller can name: those persisted, and one that is not.
HashInputs == {r.transactionHash : r \in db} \cup {UnknownHash}

CallSignSafeTransaction(p) ==
    /\ FirstFree(p)
    /\ calls < MaxCalls
    /\ calls' = calls + 1
    /\ \E w \in Wallets, a \in SafeAddresses, h \in HashInputs :
          /\ call' = [call EXCEPT ![p] =
                        [op |-> "signSafeTransaction", walletProvider |-> w,
                         args |-> [safeAddress |-> a, transactionHash |-> h]]]
          /\ pre' = [pre EXCEPT ![p] = StoredCount(db, h)]
    /\ Goto(p, "st_sign")
    /\ UNCHANGED <<chain, db>>

\* Faulty variant: before saving, the handler reads the record again and keeps the
\* signatures stored since it loaded (a guard against a concurrent signer).
SignSafeTransactionSaveMerged(p) ==
    /\ pc[p] = "ss_save"
    /\ LET transactionHash == call[p].args.transactionHash
           rows == GetSafeTransactionByHash(db, transactionHash)
           mine == local[p].signedTx.signatures
           theirs == IF rows = {} THEN << >>
                     ELSE Reattach(CHOOSE r \in rows : TRUE).signatures
           merged == [local[p].signedTx EXCEPT !.signatures =
                        [k \in DOMAIN mine \cup DOMAIN theirs |->
                            IF k \in DOMAIN mine THEN mine[k] ELSE theirs[k]]]
       IN
       \/ /\ db' = SaveSafeTransaction(db, transactionHash,
                                       call[p].args.safeAddress, merged)
          /\ ReturnValue(p,
                [transactionHash |-> transactionHash,
                 signatureCount |-> Size(merged.signatures)])
       \/ /\ CatchMessage(p, Err("Failed to save safe transaction"))
          /\ UNCHANGED db
    /\ UNCHANGED <<chain, call, pre, calls>>

\* saveSafeTransaction of the signed transaction, and the return.
SignSafeTransactionSave(p) ==
    /\ pc[p] = "ss_save"
    /\ \/ /\ db' = SaveSafeTransaction(db, call[p].args.transactionHash,
                                       call[p].args.safeAddress,
                                       local[p].signedTx)
          /\ ReturnValue(p,
                [transactionHash |-> call[p].args.transactionHash,
                 signatureCount |-> Size(local[p].signedTx.signatures)])
       \/ /\ CatchMessage(p, Err("Failed to save safe transaction"))
          /\ UNCHANGED db
    /\ UNCHANGED <<chain, call, pre, calls>>

(* ------------------------- executeSafeTransaction ---------------------- *)

\* Safe.execTransaction as the contract at `address` runs it: the digest is
\* taken over the contract's own address and current nonce, and each of the
\* first `threshold` signatures must be an owner's signature of that digest.
ExecAccepts(address, safeTx) ==
    /\ Deployed(address)
    /\ LET safe == SafeAt(address)
           digest == GetTransactionHash(address,
                        [safeTx.data EXCEPT !.nonce = nonce[address]])
           checked == FirstSigners(safeTx.signatures, safe.threshold)
       IN  /\ Cardinality(checked) = safe.threshold
           /\ \A k \in checked :
                 LET sig == safeTx.signatures[k].data IN
                 /\ sig[3] = digest
                 /\ ToLower(sig[2]) = k
                 /\ \E o \in Range(safe.owners) : ToLower(o) = k

CallExecuteSafeTransaction(p) ==
    /\ FirstFree(p)
    /\ calls < MaxCalls
    /\ calls' = calls + 1
    /\ \E w \in Senders, a \in SafeAddresses, h \in HashInputs :
          call' = [call EXCEPT ![p] =
                      [op |-> "executeSafeTransaction", walletProvider |-> w,
                       args |-> [safeAddress |-> a, transactionHash |-> h]]]
    /\ Goto(p, "ex_load")
    /\ UNCHANGED <<chain, db, pre>>

\* Faulty variant: the handler compares the number of signatures with the safe's
\* threshold itself before it goes on.
ExecuteSafeTransactionLoadGuarded(p) ==
    /\ pc[p] = "ex_load"
    /\ LET rows == GetSafeTransactionByHash(db, call[p].args.transactionHash)
       IN
       \/ /\ ~Deployed(call[p].args.safeAddress)
          /\ CatchMessage(p, Err("SafeProxy contract is not deployed"))
       \/ /\ CatchMessage(p, Err("Safe.init failed"))
       \/ /\ Deployed(call[p].args.safeAddress)
          /\ rows # {}
          /\ LET safeTx == Reattach(CHOOSE r \in rows : TRUE) IN
             IF Size(safeTx.signatures)
                   < SafeAt(call[p].args.safeAddress).threshold
             THEN CatchMessage(p, Err("Not enough signatures"))
             ELSE Continue(p, "ex_prepare", [safeTx |-> safeTx])
       \/ /\ Deployed(call[p].args.safeAddress)
          /\ rows = {}
          /\ CatchMessage(p, Err("Transaction not found"))
       \/ /\ Deployed(call[p].args.safeAddress)
          /\ CatchMessage(p, Err("Failed to get safe transaction"))
    /\ UNCHANGED <<chain, db, call, pre, calls>>

\* Safe.init({safeAddress}), which needs the safe deployed, and
\* const safeTx = await getTransactionByHash(args.transactionHash).  A
\* deployed safe stays deployed, so the two awaits are one step.
ExecuteSafeTransactionLoad(p) ==
    /\ pc[p] = "ex_load"
    /\ LET rows == GetSafeTransactionByHash(db, call[p].args.transactionHash)
       IN
       \/ /\ ~Deployed(call[p].args.safeAddress)
          /\ CatchMessage(p, Err("SafeProxy contract is not deployed"))
       \/ /\ CatchMessage(p, Err("Safe.init failed"))
       \/ /\ Deployed(call[p].args.safeAddress)
          /\ rows # {}
          /\ Continue(p, "ex_prepare",
                      [safeTx |-> Reattach(CHOOSE r \in rows : TRUE)])
       \/ /\ Deployed(call[p].args.safeAddress)
          /\ rows = {}
          /\ CatchMessage(p, Err("Transaction not found"))
       \/ /\ Deployed(call[p].args.safeAddress)
          /\ CatchMessage(p, Err("Failed to get safe transaction"))
    /\ UNCHANGED <<chain, db, call, pre, calls>>

\* Faulty variant: the request carries its own gas, so nothing is estimated and the
\* request is handed on whatever the contract would say.
ExecuteSafeTransactionPrepareNoEstimate(p) ==
    /\ pc[p] = "ex_prepare"
    /\ LET transaction == [kind |-> "exec",
                           to |-> call[p].args.safeAddress,
                           data |-> local[p].safeTx] IN
       \/ /\ Continue(p, "ex_send",
                      [prepTx |-> transaction])
       \/ /\ CatchMessage(p, Err("Failed to prepare transaction request"))
    /\ UNCHANGED <<chain, db, call, pre, calls>>

\* getEncodedTransaction(safeTx) and client.prepareTransactionRequest(): the
\* request has no gas, so the client estimates it by running the call, and
\* the estimate fails when the contract reverts.
ExecuteSafeTransactionPrepare(p) ==
    /\ pc[p] = "ex_prepare"
    /\ LET transaction == [kind |-> "exec",
                           to |-> call[p].args.safeAddress,
                           data |-> local[p].safeTx] IN
       \/ /\ ExecAccepts(transaction.to, transaction.data)
          /\ Continue(p, "ex_send",
                      [prepTx |-> transaction])
       \/ /\ ~ExecAccepts(transaction.to, transaction.data)
          /\ CatchMessage(p, Err("execution reverted"))
       \/ /\ CatchMessage(p, Err("Failed to prepare transaction request"))
    /\ UNCHANGED <<chain, db, call, pre, calls>>

\* const hash = await walletProvider.sendTransaction(prepTx).
ExecuteSafeTransactionSend(p) ==
    /\ pc[p] = "ex_send"
    /\ \/ /\ Len(txs) < MaxTx
          /\ Broadcast(local[p].prepTx)
          /\ Continue(p, "ex_wait",
                      [hash |-> Len(txs) + 1])
       \/ /\ CatchMessage(p, Err("Account not found"))
          /\ UNCHANGED txs
    /\ UNCHANGED <<safes, nonce, db, call, pre, calls>>

\* Faulty variant: the wait is not awaited, so the handler returns the hash
\* whether or not the transaction has a receipt.
ExecuteSafeTransactionWaitNotAwaited(p) ==
    /\ pc[p] = "ex_wait"
    /\ ReturnValue(p, [transactionHash |-> local[p].hash])
    /\ UNCHANGED <<chain, db, call, pre, calls>>

\* Faulty variant: once the execution has its receipt the handler removes
\* the record, so that the hash is not executed again.
ExecuteSafeTransactionWaitConsumes(p) ==
    /\ pc[p] = "ex_wait"
    /\ \/ /\ txs[local[p].hash].status # "pending"
          /\ db' = db \ GetSafeTransactionByHash(
                            db, call[p].args.transactionHash)
          /\ ReturnValue(p, [transactionHash |-> local[p].hash])
       \/ /\ CatchMessage(p, Err("Timed out while waiting for transaction"))
          /\ UNCHANGED db
    /\ UNCHANGED <<chain, call, pre, calls>>

\* await waitForTransactionReceipt(client, {hash}) and the return.
ExecuteSafeTransactionWait(p) ==
    /\ pc[p] = "ex_wait"
    /\ \/ /\ txs[local[p].hash].status # "pending"
          /\ ReturnValue(p,
                            [transactionHash |-> local[p].hash])
       \/ CatchMessage(p, Err("Timed out while waiting for transaction"))
    /\ UNCHANGED <<chain, db, call, pre, calls>>

(* ------------------------------ the chain ------------------------------ *)

\* The proxy factory: deploys the safe the initializer describes at its
\* CREATE2 address; reverts when that address is taken.
MineDeploy(i) ==
    LET tx == txs[i]
        address == PredictAddress(tx.owners, tx.threshold)
    IN  IF Deployed(address)
        THEN /\ txs' = [txs EXCEPT ![i].status = "reverted"]
             /\ UNCHANGED <<safes, nonce>>
        ELSE /\ txs' = [txs EXCEPT ![i].status = "success"]
             /\ safes' = safes \cup {[address |-> address,
                                      owners |-> tx.owners,
                                      threshold |-> tx.threshold]}
             /\ UNCHANGED nonce

\* Safe.execTransaction: an accepted execution uses up the safe's nonce.
MineExec(i) ==
    LET tx == txs[i]
    IN  IF ExecAccepts(tx.to, tx.data)
        THEN /\ txs' = [txs EXCEPT ![i].status = "success"]
             /\ nonce' = [nonce EXCEPT ![tx.to] = @ + 1]
             /\ UNCHANGED safes
        ELSE /\ txs' = [txs EXCEPT ![i].status = "reverted"]
             /\ UNCHANGED <<safes, nonce>>

\* A block includes one pending transaction.
Mine ==
    /\ \E i \in DOMAIN txs :
          /\ txs[i].status = "pending"
          /\ IF txs[i].kind = "deploy" THEN MineDeploy(i) ELSE MineExec(i)
    /\ UNCHANGED <<db, pc, call, local, result, pre, calls>>

\* The caller takes the returned value; the slot is free for a new call.
Return(p) ==
    /\ pc[p] = "done"
    /\ pc' = [pc EXCEPT ![p] = "idle"]
    /\ call' = [call EXCEPT ![p] = NoCall]
    /\ local' = [local EXCEPT ![p] = NoLocal]
    /\ result' = [result EXCEPT ![p] = NoResult]
    /\ pre' = [pre EXCEPT ![p] = -1]
    /\ UNCHANGED <<chain, db, calls>>

(* --------------------------- specifications ---------------------------- *)

\* A tool invocation arrives.
Call(p) ==
    \/ CallCreateSafe(p)
    \/ CallCreateSafeTransaction(p)
    \/ CallSignSafeTransaction(p)
    \/ CallExecuteSafeTransaction(p)

\* A suspended handler resumes at its await.
Resume(p) ==
    \/ CreateSafePrepare(p)
    \/ CreateSafeSend(p)
    \/ CreateSafeWait(p)
    \/ CreateSafeTransactionInit(p)
    \/ CreateSafeTransactionSave(p)
    \/ SignTransaction(p)
    \/ CreateSafeTransactionStore(p)
    \/ SignSafeTransactionSave(p)
    \/ ExecuteSafeTransactionLoad(p)
    \/ ExecuteSafeTransactionPrepare(p)
    \/ ExecuteSafeTransactionSend(p)
    \/ ExecuteSafeTransactionWait(p)
    \/ Return(p)

\* Invocations overlap freely: a call can arrive while another is suspended.
Next ==
    \/ \E p \in Procs : Call(p)
    \/ \E p \in Procs : Resume(p)
    \/ Mine

Spec == Init /\ [][Next]_vars

\* One invocation at a time: a call arrives only when no handler is running.
AllIdle == \A p \in Procs : pc[p] = "idle"

SeqCall(p) ==
    \/ AllIdle /\ CallCreateSafe(p)
    \/ AllIdle /\ CallCreateSafeTransaction(p)
    \/ AllIdle /\ CallSignSafeTransaction(p)
    \/ AllIdle /\ CallExecuteSafeTransaction(p)

NextSeq ==
    \/ \E p \in Procs : SeqCall(p)
    \/ \E p \in Procs : Resume(p)
    \/ Mine

SpecSeq == Init /\ [][NextSeq]_vars

(* ------------------------------ vocabulary ----------------------------- *)

Done(p, op) == pc[p] = "done" /\ call[p].op = op
IsError(r) == "error" \in DOMAIN r
Succeeded(p, op) == Done(p, op) /\ ~IsError(result[p])

\* The row stored under a hash that has one.
Stored(transactionHash) ==
    CHOOSE r \in GetSafeTransactionByHash(db, transactionHash) : TRUE
Persisted(transactionHash) ==
    GetSafeTransactionByHash(db, transactionHash) # {}
StoredSigners(transactionHash) ==
    DOMAIN Stored(transactionHash).transaction.signatures

\* The key under which an invocation's wallet signs.
Signer(p) == ToLower(call[p].walletProvider)

(* --------------------------------- C1 ---------------------------------- *)

\* C1: when createSafeTransaction returns success for a hash that had no
\* record before the call, the call returned signatureCount 1 and a lookup of
\* the hash right after the return finds a record whose signature count is 1
\* (one signature, the signatureCount column 1).
C1_CreateThenLookupCountsOne ==
    \A p \in Procs :
        (Succeeded(p, "createSafeTransaction") /\ pre[p] = -1) =>
            /\ result[p].signatureCount = 1
            /\ Persisted(result[p].transactionHash)
            /\ Stored(result[p].transactionHash).signatureCount = 1
            /\ Size(Reattach(Stored(result[p].transactionHash)).signatures)
                  = 1

C1_Witness ==
    \E p \in Procs :
        /\ Succeeded(p, "createSafeTransaction")
        /\ pre[p] = -1
        /\ Stored(result[p].transactionHash).signatureCount = 1

(* --------------------------------- C2 ---------------------------------- *)

\* C2: with one call finishing before the next starts, each successful
\* signSafeTransaction returns and leaves persisted a signature count that is
\* at least the count persisted under the hash before the call.
C2_SignCountNeverDecreases ==
    \A p \in Procs :
        Succeeded(p, "signSafeTransaction") =>
            /\ result[p].signatureCount >= pre[p]
            /\ Stored(result[p].transactionHash).signatureCount >= pre[p]
            /\ Stored(result[p].transactionHash).signatureCount
                  = result[p].signatureCount

\* A second, distinct signer has raised the count from 1 to 2.
C2_Witness ==
    \E p \in Procs :
        /\ Succeeded(p, "signSafeTransaction")
        /\ pre[p] = 1
        /\ result[p].signatureCount = 2
        /\ Stored(result[p].transactionHash).signatureCount = 2

(* --------------------------------- C3 ---------------------------------- *)

\* signSafeTransaction or executeSafeTransaction running on a hash that has
\* no record.
OnUnknownHash(p) ==
    /\ call[p].op \in {"signSafeTransaction", "executeSafeTransaction"}
    /\ ~Persisted(call[p].args.transactionHash)

\* Failures of the database or of the RPC endpoint themselves.
OutageMessages == {"Failed to get safe transaction", "Safe.init failed"}

\* C3 as stated (an outage of the database or the RPC endpoint not counted
\* against it): signSafeTransaction and executeSafeTransaction called with a
\* hash that has no record both return {error: "Transaction not found"}.
C3_UnknownHashAlwaysNotFound ==
    \A p \in Procs :
        (OnUnknownHash(p) /\ pc[p] = "done") =>
            /\ IsError(result[p])
            /\ result[p].error \notin OutageMessages =>
                  result[p].error = "Transaction not found"

\* C3: signSafeTransaction and executeSafeTransaction called with a hash that
\* has no record never get past the lookup (nothing is signed, saved or
\* handed to the wallet provider) and return an {error} result; the error is
\* "Transaction not found", except that executeSafeTransaction, which runs
\* Safe.init on args.safeAddress before the lookup, returns Safe.init's error
\* when no safe is deployed at that address.
C3_UnknownHashFailsAtLookup ==
    \A p \in Procs :
        OnUnknownHash(p) =>
            /\ pc[p] \in {"st_sign", "ex_load", "done"}
            /\ pc[p] = "done" =>
                  /\ DOMAIN result[p] = {"error"}
                  /\ result[p].error \in
                        {"Transaction not found"} \cup OutageMessages \cup
                        (IF call[p].op = "executeSafeTransaction"
                         THEN {"SafeProxy contract is not deployed"}
                         ELSE {})

\* Both actions have returned "Transaction not found" for an unknown hash.
C3_Witness ==
    \E p, q \in Procs :
        /\ Done(p, "signSafeTransaction") /\ OnUnknownHash(p)
        /\ Done(q, "executeSafeTransaction") /\ OnUnknownHash(q)
        /\ result[p].error = "Transaction not found"
        /\ result[q].error = "Transaction not found"

(* --------------------------------- C4 ---------------------------------- *)

\* C4: executeSafeTransaction never returns success for a transaction it
\* loaded with zero signatures: with no signature the contract rejects the
\* execution, the handler never gets to broadcast it, and every execution that
\* returned {transactionHash} broadcast a transaction carrying a signature.
C4_ZeroSignaturesNeverSucceed ==
    \A p \in Procs :
        call[p].op = "executeSafeTransaction" =>
            /\ (pc[p] = "ex_prepare" /\ Size(local[p].safeTx.signatures) = 0)
                  => ~ExecAccepts(call[p].args.safeAddress, local[p].safeTx)
            /\ pc[p] \in {"ex_send", "ex_wait"} =>
                  Size(local[p].safeTx.signatures) > 0
            /\ Succeeded(p, "executeSafeTransaction") =>
                  Size(txs[result[p].transactionHash].data.signatures) > 0

\* An execution of a record without signatures has returned the revert.
C4_Witness ==
    \E p \in Procs :
        /\ Done(p, "executeSafeTransaction")
        /\ Persisted(call[p].args.transactionHash)
        /\ Stored(call[p].args.transactionHash).signatureCount = 0
        /\ IsError(result[p])
        /\ result[p].error = "execution reverted"

(* --------------------------------- C5 ---------------------------------- *)

\* Where a handler can be: at one of its awaits, or returned.
Labels ==
    {"idle", "done",
     "cs_prepare", "cs_send", "cs_wait",
     "ct_init", "ct_save", "st_sign", "ct_store", "ss_save",
     "ex_load", "ex_prepare", "ex_send", "ex_wait"}

\* The fields of each action's success payload.
SuccessKeys(op) ==
    CASE op = "createSafe" ->
            {"safeAddress", "transactionHash", "threshold", "owners"}
      [] op = "createSafeTransaction" -> {"transactionHash", "signatureCount"}
      [] op = "signSafeTransaction" -> {"transactionHash", "signatureCount"}
      [] op = "executeSafeTransaction" -> {"transactionHash"}

\* C5: no invocation of the four actions ends other than by returning (no
\* exception escapes), and what it returns is either the action's success
\* payload or a result with just an error field, never both.
C5_ErrorsAreReturned ==
    \A p \in Procs :
        /\ pc[p] \in Labels
        /\ pc[p] = "done" =>
              \/ DOMAIN result[p] = {"error"}
              \/ DOMAIN result[p] = SuccessKeys(call[p].op)

\* An execution was broadcast and its confirmation wait failed: the handler
\* has returned the error.
C5_Witness ==
    \E p \in Procs :
        /\ Done(p, "executeSafeTransaction")
        /\ DOMAIN result[p] = {"error"}
        /\ result[p].error = "Timed out while waiting for transaction"
        /\ \E i \in DOMAIN txs : txs[i].kind = "exec"

(* --------------------------------- C6 ---------------------------------- *)

\* C6: when createSafe returns success, the returned safeAddress is the
\* address predicted from the owners and threshold it was called with, the
\* safe deployed there has those owners and that threshold, and the owners
\* and threshold of the payload are the inputs.
C6_SafeIsAsRequested ==
    \A p \in Procs :
        Succeeded(p, "createSafe") =>
            LET a == call[p].args IN
            /\ result[p].safeAddress = PredictAddress(a.owners, a.threshold)
            /\ Deployed(result[p].safeAddress)
            /\ SafeAt(result[p].safeAddress).owners = a.owners
            /\ SafeAt(result[p].safeAddress).threshold = a.threshold
            /\ result[p].owners = a.owners
            /\ result[p].threshold = a.threshold

\* createSafe has deployed a safe other than the initial one and returned it.
C6_Witness ==
    \E p \in Procs :
        /\ Succeeded(p, "createSafe")
        /\ result[p].safeAddress # InitialSafe.address
        /\ txs[result[p].transactionHash].status = "success"

(* --------------------------------- C7 ---------------------------------- *)

\* C7: signSafeTransaction saves what it loaded plus its own signature with
\* nothing to guard against a save made in between: after a successful save
\* the record holds exactly the signatures of the saving invocation's copy
\* (the last write wins), so of two overlapping invocations by distinct
\* signers both return success and one signature is lost.
C7_LastWriteWins ==
    [][\A p \in Procs :
          (/\ call[p].op = "signSafeTransaction"
           /\ pc[p] = "ss_save"
           /\ pc'[p] = "done"
           /\ ~IsError(result'[p])) =>
              LET rows == GetSafeTransactionByHash(
                              db', call[p].args.transactionHash) IN
              /\ rows # {}
              /\ \A r \in rows :
                    /\ DOMAIN r.transaction.signatures
                          = DOMAIN local[p].signedTx.signatures
                    /\ r.signatureCount = result'[p].signatureCount]_vars

\* Two signers signed a record that had no signature; both returned success
\* with count 1, and the record holds one of the two signatures.
C7_Witness ==
    \E p, q \in Procs :
        /\ Succeeded(p, "signSafeTransaction")
        /\ Succeeded(q, "signSafeTransaction")
        /\ Signer(p) # Signer(q)
        /\ call[p].args.transactionHash = call[q].args.transactionHash
        /\ pre[p] = 0 /\ pre[q] = 0
        /\ result[p].signatureCount = 1 /\ result[q].signatureCount = 1
        /\ StoredSigners(call[p].args.transactionHash) = {Signer(q)}

(* --------------------------------- C8 ---------------------------------- *)

\* createSafeTransaction between its first save and its return.
Creating(p) ==
    /\ call[p].op = "createSafeTransaction"
    /\ pc[p] \in {"st_sign", "ct_store"}

\* C8 as stated: the transaction is signed before it is persisted, so every
\* record holds a signature, and the record of a creation under way holds the
\* creator's.
C8_NoRecordWithoutCreatorSignature ==
    \A r \in db :
        /\ r.signatureCount >= 1
        /\ \A p \in Procs :
              (Creating(p) /\ local[p].transactionHash = r.transactionHash)
                  => Signer(p) \in DOMAIN r.transaction.signatures

\* C8: createSafeTransaction builds the transaction, computes its hash,
\* persists it unsigned under the hash, loads it back and signs it, persists
\* the signed transaction and returns.  With one call at a time and no record
\* under the hash before: from the first save until the second the record is
\* there with no signature (and stays so when the invocation fails in
\* between); the copy handed to the second save holds the creator's
\* signature, and so does the count of a successful return.
C8_PersistedThenSigned ==
    \A p \in Procs :
        (call[p].op = "createSafeTransaction" /\ pre[p] = -1) =>
            /\ pc[p] \in {"st_sign", "ct_store"} =>
                  /\ Persisted(local[p].transactionHash)
                  /\ Stored(local[p].transactionHash).signatureCount = 0
                  /\ StoredSigners(local[p].transactionHash) = {}
            /\ pc[p] = "ct_store" =>
                  DOMAIN local[p].signedTx.signatures = {Signer(p)}
            /\ Succeeded(p, "createSafeTransaction") =>
                  result[p].signatureCount = 1

\* The creator's signing failed: the invocation returned the error and left
\* a record without a signature.
C8_Witness ==
    \E p \in Procs :
        /\ Done(p, "createSafeTransaction")
        /\ pre[p] = -1
        /\ IsError(result[p])
        /\ result[p].error = "Account not found"
        /\ \E r \in db : r.signatureCount = 0

(* --------------------------------- C9 ---------------------------------- *)

\* C9: executeSafeTransaction has no signature-threshold check of its own.
\* Once the safe is connected and the record is found, whatever its signature
\* count, the handler ends early only on a failure of the database or the RPC
\* endpoint, or because the contract rejects the execution when the request
\* is prepared; an execution the contract accepts goes to the wallet provider.
C9_NoLocalThresholdGuard ==
    [][\A p \in Procs :
          (/\ call[p].op = "executeSafeTransaction"
           /\ pc[p] \in {"ex_load", "ex_prepare"}
           /\ Deployed(call[p].args.safeAddress)
           /\ Persisted(call[p].args.transactionHash)
           /\ pc'[p] = "done") =>
              \/ result'[p].error \in
                    OutageMessages \cup
                    {"Failed to prepare transaction request"}
              \/ /\ pc[p] = "ex_prepare"
                 /\ result'[p].error = "execution reverted"
                 /\ ~ExecAccepts(call[p].args.safeAddress,
                                 local[p].safeTx)]_vars

\* A transaction with fewer signatures than the safe's threshold is at the
\* preparation of its execution.
C9_Witness ==
    \E p \in Procs :
        /\ call[p].op = "executeSafeTransaction"
        /\ pc[p] = "ex_prepare"
        /\ Size(local[p].safeTx.signatures)
              < SafeAt(call[p].args.safeAddress).threshold

(* --------------------------------- C10 --------------------------------- *)

\* What can fail in signSafeTransaction on a record that is there: the
\* wallet, or the database.
SignFaults ==
    {"Account not found", "Failed to get safe transaction",
     "Failed to save safe transaction"}

\* C10: signSafeTransaction on a hash that had a record when it was called
\* fails only when the wallet or the database fails: it is never refused
\* because the signer has signed already or because the signatures have
\* reached the safe's threshold.
C10_SignNeverRefused ==
    \A p \in Procs :
        (Done(p, "signSafeTransaction") /\ pre[p] >= 0) =>
            \/ DOMAIN result[p] = SuccessKeys("signSafeTransaction")
            \/ /\ IsError(result[p])
               /\ result[p].error \in SignFaults

\* A signer whose signature was in the record, on a record that had reached
\* the threshold of its safe, has signed again with success: the count is as
\* before.
C10_Witness ==
    \E p \in Procs :
        /\ Succeeded(p, "signSafeTransaction")
        /\ Signer(p) \in StoredSigners(result[p].transactionHash)
        /\ pre[p] = result[p].signatureCount
        /\ Deployed(Stored(result[p].transactionHash).safeAddress)
        /\ pre[p] >= SafeAt(Stored(result[p].transactionHash).safeAddress)
                        .threshold

(* --------------------------------- C11 --------------------------------- *)

\* C11: createSafe does nothing about a deployment it has sent when the
\* confirmation wait fails.  From the wait on, the handler's only steps are
\* the return of its result and the caller taking it, and none of them touches
\* the chain: the deployment stays broadcast as it was sent, nothing is sent
\* again, and the result is the error.
C11_NoCompensation ==
    [][\A p \in Procs :
          (/\ call[p].op = "createSafe"
           /\ pc[p] \in {"cs_wait", "done"}
           /\ pc'[p] # pc[p]) =>
              /\ chain' = chain
              /\ pc'[p] = IF pc[p] = "cs_wait" THEN "done" ELSE "idle"
              /\ pc[p] = "cs_wait" =>
                    /\ txs'[local[p].transactionHash].kind = "deploy"
                    /\ txs'[local[p].transactionHash].owners
                          = call[p].args.owners]_vars

\* createSafe has returned the failure of its wait, and the safe it asked
\* for is deployed by the transaction it sent.
C11_Witness ==
    \E p \in Procs :
        /\ Done(p, "createSafe")
        /\ IsError(result[p])
        /\ result[p].error.message = "Timed out while waiting for transaction"
        /\ Len(txs) = 1
        /\ \E i \in DOMAIN txs :
              /\ txs[i].kind = "deploy"
              /\ txs[i].status = "success"
              /\ PredictAddress(txs[i].owners, txs[i].threshold)
                    = PredictAddress(call[p].args.owners,
                                     call[p].args.threshold)

(* --------------------------------- C12 --------------------------------- *)

\* The transaction a handler at its confirmation wait has broadcast.
Awaited(p) ==
    IF pc[p] = "cs_wait" THEN local[p].transactionHash ELSE local[p].hash

\* The rejection of the wait, as the handler's catch returns it.
WaitFailed(p, r) ==
    /\ IsError(r)
    /\ IF call[p].op = "createSafe"
       THEN r.error.message = "Timed out while waiting for transaction"
       ELSE r.error = "Timed out while waiting for transaction"

\* C12: a handler of createSafe or executeSafeTransaction that has broadcast
\* its transaction leaves the confirmation wait only by returning, and only
\* when the transaction has its receipt or the wait itself has failed: a
\* success is returned only for a transaction with a receipt, and while the
\* transaction stays pending and the wait does not fail the handler stays
\* where it is.
C12_WaitBlocksUntilOutcome ==
    [][\A p \in Procs :
          (pc[p] \in {"cs_wait", "ex_wait"} /\ pc'[p] # pc[p]) =>
              /\ pc'[p] = "done"
              /\ \/ txs[Awaited(p)].status # "pending"
                 \/ WaitFailed(p, result'[p])
              /\ ~IsError(result'[p]) =>
                    /\ txs[Awaited(p)].status # "pending"
                    /\ result'[p].transactionHash = Awaited(p)]_vars

\* One handler is held at its wait by a pending deployment while an
\* execution whose transaction got its receipt has returned success.
C12_Witness ==
    \E p, q \in Procs :
        /\ pc[p] = "cs_wait"
        /\ txs[Awaited(p)].status = "pending"
        /\ Succeeded(q, "executeSafeTransaction")
        /\ txs[result[q].transactionHash].status # "pending"

(* --------------------------------- C13 --------------------------------- *)

\* The distinct signer addresses of the signatures stored under a hash.
DistinctSigners(table, transactionHash) ==
    LET rows == GetSafeTransactionByHash(table, transactionHash) IN
    IF rows = {} THEN {}
    ELSE LET stored == (CHOOSE r \in rows : TRUE).transaction.signatures
         IN  {ToLower(stored[k].signer) : k \in DOMAIN stored}

\* C13: with one call at a time, the count createSafeTransaction and
\* signSafeTransaction return is the number of distinct signer addresses of
\* the signatures they leave stored.  signSafeTransaction leaves the signers
\* there were plus the caller, so a caller whose signature was there already
\* gets back the count there was before the call.
C13_CountIsDistinctSigners ==
    [][\A p \in Procs :
          (/\ pc[p] \in {"ct_store", "ss_save"}
           /\ pc'[p] = "done"
           /\ ~IsError(result'[p])) =>
              LET before == DistinctSigners(db, HashOf(p))
                  after == DistinctSigners(db', HashOf(p)) IN
              /\ result'[p].signatureCount = Cardinality(after)
              /\ Signer(p) \in after
              /\ call[p].op = "signSafeTransaction" =>
                    /\ after = before \cup {Signer(p)}
                    /\ Signer(p) \in before =>
                          /\ result'[p].signatureCount
                                = StoredCount(db, HashOf(p))
                          /\ result'[p].signatureCount = pre[p]]_vars

\* A signer who is one of the two signers of a record has signed it again:
\* the count is 2 as before.
C13_Witness ==
    \E p \in Procs :
        /\ Succeeded(p, "signSafeTransaction")
        /\ pre[p] = 2
        /\ result[p].signatureCount = 2
        /\ Signer(p) \in DistinctSigners(db, result[p].transactionHash)
        /\ Cardinality(DistinctSigners(db, result[p].transactionHash)) = 2

(* --------------------------------- C14 --------------------------------- *)

\* C14: no step of executeSafeTransaction, from the call to the return of a
\* success or of an error, changes the persisted records: neither the record
\* under its hash (payload, signatures, count, safe address) nor any other;
\* nothing marks the record as submitted or executed, so a later call loads
\* and submits the same record again.
C14_ExecuteOnlyReads ==
    [][\A p \in Procs :
          (/\ \/ call[p].op = "executeSafeTransaction"
              \/ call'[p].op = "executeSafeTransaction"
           /\ pc'[p] # pc[p]) => db' = db]_vars

\* An execution was submitted and its handler is gone; a later one of the
\* same hash has loaded the same signed transaction, submitted it and
\* returned success, and the record is still as it was loaded.
C14_Witness ==
    \E p \in Procs :
        /\ Succeeded(p, "executeSafeTransaction")
        /\ \A q \in Procs \ {p} : pc[q] = "idle"
        /\ Len(txs) = 2
        /\ result[p].transactionHash = 2
        /\ txs[1].kind = "exec" /\ txs[2].kind = "exec"
        /\ txs[1].data = txs[2].data
        /\ Persisted(call[p].args.transactionHash)
        /\ Reattach(Stored(call[p].args.transactionHash)) = txs[2].data

(* --------------------------------- C15 --------------------------------- *)

\* C15: signing never changes a payload.  The copy signTransaction loads and
\* signs has the payload stored under the hash, and the save of
\* signSafeTransaction leaves under every hash the payload that was there:
\* only the signatures of the signed hash differ.
C15_SignKeepsPayload ==
    [][\A p \in Procs :
          /\ (pc[p] = "st_sign" /\ pc'[p] \in {"ct_store", "ss_save"}) =>
                local'[p].signedTx.data = Stored(HashOf(p)).transaction.data
          /\ (/\ call[p].op = "signSafeTransaction"
              /\ pc[p] = "ss_save"
              /\ pc'[p] = "done"
              /\ ~IsError(result'[p])) =>
                /\ {r.transactionHash : r \in db'}
                      = {r.transactionHash : r \in db}
                /\ \A r \in db : \A r2 \in db' :
                      r2.transactionHash = r.transactionHash =>
                          /\ r2.transaction.data = r.transaction.data
                          /\ r2.transactionHash # HashOf(p) => r2 = r]_vars

\* A second signer has signed: the record has two signatures and the payload
\* is the call the transaction was created with.
C15_Witness ==
    \E p \in Procs :
        /\ Succeeded(p, "signSafeTransaction")
        /\ Stored(result[p].transactionHash).signatureCount = 2
        /\ LET data == Stored(result[p].transactionHash).transaction.data IN
           /\ data.to = T1.to
           /\ data.value = T1.value
           /\ data.data = T1.data
           /\ GetTransactionHash(Stored(result[p].transactionHash).safeAddress,
                                 data) = result[p].transactionHash

====
